---------------------------- MODULE Spec2Model ----------------------------
(***************************************************************************)
(* Model of telegram/files/inputmedia.py: the five InputMedia constructors *)
(* (InputMediaAnimation, InputMediaPhoto, InputMediaVideo, InputMediaAudio,*)
(* InputMediaDocument).  A constructed object is the function from the     *)
(* names of the attributes that were assigned on self to their values; an  *)
(* attribute that was never assigned is not in the function's domain.      *)
(***************************************************************************)
EXTENDS Integers, Sequences, FiniteSets, TLC

(***************************************************************************)
(* Bounds of the model.                                                    *)
(***************************************************************************)
\* integer arguments range over 0..MaxInt
MaxInt == 1
\* constructions performed from one argument tuple in one run
MaxCalls == 2

(***************************************************************************)
(* Python values.  Every value is a record tagged by k; the other fields   *)
(* are the value's attributes.                                             *)
(***************************************************************************)
None == [k |-> "None"]

PyStr(s) == [k |-> "str", s |-> s]

PyInt(n) == [k |-> "int", n |-> n]

PyBool(b) == [k |-> "bool", b |-> b]

\* an open binary stream: an object that has a read attribute
File(name) == [k |-> "file", name |-> name, read |-> TRUE]

\* telegram.utils.helpers.DEFAULT_NONE, the DefaultValue wrapping None
DEFAULT_NONE == [k |-> "DefaultValue", value |-> None]

Animation(file_id, width, height, duration) ==
    [k |-> "Animation", file_id |-> file_id, width |-> width,
     height |-> height, duration |-> duration]

Video(file_id, width, height, duration) ==
    [k |-> "Video", file_id |-> file_id, width |-> width,
     height |-> height, duration |-> duration]

Audio(file_id, duration, performer, title) ==
    [k |-> "Audio", file_id |-> file_id, duration |-> duration,
     performer |-> performer, title |-> title]

PhotoSize(file_id, width, height) ==
    [k |-> "PhotoSize", file_id |-> file_id, width |-> width, height |-> height]

Document(file_id) == [k |-> "Document", file_id |-> file_id]

\* isinstance(obj, cls) for the five telegram classes
isinstance(obj, cls) == obj.k = cls

\* the truth value Python's `if x:` gives x
Truthy(x) ==
    CASE x.k = "None" -> FALSE
      [] x.k = "str" -> x.s # ""
      [] x.k = "int" -> x.n # 0
      [] x.k = "bool" -> x.b
      [] x.k = "DefaultValue" -> FALSE
      [] OTHER -> TRUE

\* InputFile.is_file(obj): obj has a read attribute
is_file(obj) == "read" \in DOMAIN obj

\* InputFile(obj, attach=...): the attachment reference; uuid is the value
\* uuid4() returns during this construction
InputFile(obj, attach, uuid) ==
    [k |-> "InputFile", obj |-> obj,
     attach |-> IF attach THEN [k |-> "attached", uuid |-> uuid] ELSE None]

\* self.name = value
SetAttr(self, name, value) == (name :> value) @@ self

(***************************************************************************)
(* InputMediaAnimation.__init__                                            *)
(***************************************************************************)
AnimationMedia(self, media, uuid) ==
    IF isinstance(media, "Animation")
    THEN SetAttr(SetAttr(SetAttr(SetAttr(self,
             "media", media.file_id),
             "width", media.width),
             "height", media.height),
             "duration", media.duration)
    ELSE IF is_file(media)
    THEN SetAttr(self, "media", InputFile(media, TRUE, uuid))
    ELSE SetAttr(self, "media", media)

\* bug: the thumb is handled only when media was not a telegram.Animation
AnimationThumb_SkipsAfterObject(self, thumb, uuid) ==
    IF "width" \in DOMAIN self
    THEN self
    ELSE IF Truthy(thumb)
    THEN IF is_file(thumb)
         THEN SetAttr(self, "thumb", InputFile(thumb, TRUE, uuid))
         ELSE SetAttr(self, "thumb", thumb)
    ELSE self

AnimationThumb(self, thumb, uuid) ==
    IF Truthy(thumb)
    THEN IF is_file(thumb)
         THEN SetAttr(self, "thumb", InputFile(thumb, TRUE, uuid))
         ELSE SetAttr(self, "thumb", thumb)
    ELSE self

\* bug: self.height = width
AnimationScalars_HeightFromWidth(self, caption, parse_mode, width, height, duration) ==
    LET s1 == IF Truthy(caption) THEN SetAttr(self, "caption", caption) ELSE self
        s2 == SetAttr(s1, "parse_mode", parse_mode)
        s3 == IF Truthy(width) THEN SetAttr(s2, "width", width) ELSE s2
        s4 == IF Truthy(height) THEN SetAttr(s3, "height", width) ELSE s3
    IN  IF Truthy(duration) THEN SetAttr(s4, "duration", duration) ELSE s4

AnimationScalars(self, caption, parse_mode, width, height, duration) ==
    LET s1 == IF Truthy(caption) THEN SetAttr(self, "caption", caption) ELSE self
        s2 == SetAttr(s1, "parse_mode", parse_mode)
        s3 == IF Truthy(width) THEN SetAttr(s2, "width", width) ELSE s2
        s4 == IF Truthy(height) THEN SetAttr(s3, "height", height) ELSE s3
    IN  IF Truthy(duration) THEN SetAttr(s4, "duration", duration) ELSE s4

\* uuids: the values the next two uuid4() calls return
InputMediaAnimation(media, thumb, caption, parse_mode, width, height, duration, uuids) ==
    LET s0 == "type" :> PyStr("animation")
        s1 == AnimationMedia(s0, media, uuids[1])
        s2 == AnimationThumb(s1, thumb, IF is_file(media) THEN uuids[2] ELSE uuids[1])
    IN  AnimationScalars(s2, caption, parse_mode, width, height, duration)

(***************************************************************************)
(* InputMediaPhoto.__init__                                                *)
(***************************************************************************)
\* bug: width and height are copied from the PhotoSize, as for a Video
PhotoMedia_CopiesSize(self, media, uuid) ==
    IF isinstance(media, "PhotoSize")
    THEN SetAttr(SetAttr(SetAttr(self,
             "media", media.file_id),
             "width", media.width),
             "height", media.height)
    ELSE IF is_file(media)
    THEN SetAttr(self, "media", InputFile(media, TRUE, uuid))
    ELSE SetAttr(self, "media", media)

\* bug: any object with a file_id is taken for a PhotoSize
PhotoMedia_DuckTyped(self, media, uuid) ==
    IF "file_id" \in DOMAIN media
    THEN SetAttr(self, "media", media.file_id)
    ELSE IF is_file(media)
    THEN SetAttr(self, "media", InputFile(media, TRUE, uuid))
    ELSE SetAttr(self, "media", media)

PhotoMedia(self, media, uuid) ==
    IF isinstance(media, "PhotoSize")
    THEN SetAttr(self, "media", media.file_id)
    ELSE IF is_file(media)
    THEN SetAttr(self, "media", InputFile(media, TRUE, uuid))
    ELSE SetAttr(self, "media", media)

PhotoScalars(self, caption, parse_mode) ==
    LET s1 == IF Truthy(caption) THEN SetAttr(self, "caption", caption) ELSE self
    IN  SetAttr(s1, "parse_mode", parse_mode)

InputMediaPhoto(media, caption, parse_mode, uuids) ==
    LET s0 == "type" :> PyStr("photo")
        s1 == PhotoMedia(s0, media, uuids[1])
    IN  PhotoScalars(s1, caption, parse_mode)

(***************************************************************************)
(* InputMediaVideo.__init__                                                *)
(***************************************************************************)
\* bug: the is_file test comes before the isinstance test
VideoMedia_FileFirst(self, media, uuid) ==
    IF is_file(media)
    THEN SetAttr(self, "media", InputFile(media, TRUE, uuid))
    ELSE IF isinstance(media, "Video")
    THEN SetAttr(SetAttr(SetAttr(SetAttr(self,
             "media", media.file_id),
             "width", media.width),
             "height", media.height),
             "duration", media.duration)
    ELSE SetAttr(self, "media", media)

VideoMedia(self, media, uuid) ==
    IF isinstance(media, "Video")
    THEN SetAttr(SetAttr(SetAttr(SetAttr(self,
             "media", media.file_id),
             "width", media.width),
             "height", media.height),
             "duration", media.duration)
    ELSE IF is_file(media)
    THEN SetAttr(self, "media", InputFile(media, TRUE, uuid))
    ELSE SetAttr(self, "media", media)

VideoThumb(self, thumb, uuid) ==
    IF Truthy(thumb)
    THEN IF is_file(thumb)
         THEN SetAttr(self, "thumb", InputFile(thumb, TRUE, uuid))
         ELSE SetAttr(self, "thumb", thumb)
    ELSE self

\* bug: `if supports_streaming is not None:`
VideoScalars_StreamingNotNone(self, caption, parse_mode, width, height, duration, supports_streaming) ==
    LET s1 == IF Truthy(caption) THEN SetAttr(self, "caption", caption) ELSE self
        s2 == SetAttr(s1, "parse_mode", parse_mode)
        s3 == IF Truthy(width) THEN SetAttr(s2, "width", width) ELSE s2
        s4 == IF Truthy(height) THEN SetAttr(s3, "height", height) ELSE s3
        s5 == IF Truthy(duration) THEN SetAttr(s4, "duration", duration) ELSE s4
    IN  IF supports_streaming # None
        THEN SetAttr(s5, "supports_streaming", supports_streaming)
        ELSE s5

VideoScalars(self, caption, parse_mode, width, height, duration, supports_streaming) ==
    LET s1 == IF Truthy(caption) THEN SetAttr(self, "caption", caption) ELSE self
        s2 == SetAttr(s1, "parse_mode", parse_mode)
        s3 == IF Truthy(width) THEN SetAttr(s2, "width", width) ELSE s2
        s4 == IF Truthy(height) THEN SetAttr(s3, "height", height) ELSE s3
        s5 == IF Truthy(duration) THEN SetAttr(s4, "duration", duration) ELSE s4
    IN  IF Truthy(supports_streaming)
        THEN SetAttr(s5, "supports_streaming", supports_streaming)
        ELSE s5

InputMediaVideo(media, caption, width, height, duration, supports_streaming, parse_mode, thumb, uuids) ==
    LET s0 == "type" :> PyStr("video")
        s1 == VideoMedia(s0, media, uuids[1])
        s2 == VideoThumb(s1, thumb, IF is_file(media) THEN uuids[2] ELSE uuids[1])
    IN  VideoScalars(s2, caption, parse_mode, width, height, duration, supports_streaming)

(***************************************************************************)
(* InputMediaAudio.__init__                                                *)
(***************************************************************************)
AudioMedia(self, media, uuid) ==
    IF isinstance(media, "Audio")
    THEN SetAttr(SetAttr(SetAttr(SetAttr(self,
             "media", media.file_id),
             "duration", media.duration),
             "performer", media.performer),
             "title", media.title)
    ELSE IF is_file(media)
    THEN SetAttr(self, "media", InputFile(media, TRUE, uuid))
    ELSE SetAttr(self, "media", media)

\* bug: InputFile(thumb) without attach=True
AudioThumb_NoAttach(self, thumb, uuid) ==
    IF Truthy(thumb)
    THEN IF is_file(thumb)
         THEN SetAttr(self, "thumb", InputFile(thumb, FALSE, uuid))
         ELSE SetAttr(self, "thumb", thumb)
    ELSE self

AudioThumb(self, thumb, uuid) ==
    IF Truthy(thumb)
    THEN IF is_file(thumb)
         THEN SetAttr(self, "thumb", InputFile(thumb, TRUE, uuid))
         ELSE SetAttr(self, "thumb", thumb)
    ELSE self

\* bug: self.title = title without the `if title:` test
AudioScalars_TitleAlways(self, caption, parse_mode, duration, performer, title) ==
    LET s1 == IF Truthy(caption) THEN SetAttr(self, "caption", caption) ELSE self
        s2 == SetAttr(s1, "parse_mode", parse_mode)
        s3 == IF Truthy(duration) THEN SetAttr(s2, "duration", duration) ELSE s2
        s4 == IF Truthy(performer) THEN SetAttr(s3, "performer", performer) ELSE s3
    IN  SetAttr(s4, "title", title)

AudioScalars(self, caption, parse_mode, duration, performer, title) ==
    LET s1 == IF Truthy(caption) THEN SetAttr(self, "caption", caption) ELSE self
        s2 == SetAttr(s1, "parse_mode", parse_mode)
        s3 == IF Truthy(duration) THEN SetAttr(s2, "duration", duration) ELSE s2
        s4 == IF Truthy(performer) THEN SetAttr(s3, "performer", performer) ELSE s3
    IN  IF Truthy(title) THEN SetAttr(s4, "title", title) ELSE s4

InputMediaAudio(media, thumb, caption, parse_mode, duration, performer, title, uuids) ==
    LET s0 == "type" :> PyStr("audio")
        s1 == AudioMedia(s0, media, uuids[1])
        s2 == AudioThumb(s1, thumb, IF is_file(media) THEN uuids[2] ELSE uuids[1])
    IN  AudioScalars(s2, caption, parse_mode, duration, performer, title)

(***************************************************************************)
(* InputMediaDocument.__init__                                             *)
(***************************************************************************)
\* bug: whatever is not a telegram.Document is uploaded as a file
DocumentMedia_AlwaysUpload(self, media, uuid) ==
    IF isinstance(media, "Document")
    THEN SetAttr(self, "media", media.file_id)
    ELSE SetAttr(self, "media", InputFile(media, TRUE, uuid))

DocumentMedia(self, media, uuid) ==
    IF isinstance(media, "Document")
    THEN SetAttr(self, "media", media.file_id)
    ELSE IF is_file(media)
    THEN SetAttr(self, "media", InputFile(media, TRUE, uuid))
    ELSE SetAttr(self, "media", media)

DocumentThumb(self, thumb, uuid) ==
    IF Truthy(thumb)
    THEN IF is_file(thumb)
         THEN SetAttr(self, "thumb", InputFile(thumb, TRUE, uuid))
         ELSE SetAttr(self, "thumb", thumb)
    ELSE self

\* bug: self.caption = caption without the `if caption:` test
DocumentScalars_CaptionAlways(self, caption, parse_mode) ==
    SetAttr(SetAttr(self, "caption", caption), "parse_mode", parse_mode)

DocumentScalars(self, caption, parse_mode) ==
    LET s1 == IF Truthy(caption) THEN SetAttr(self, "caption", caption) ELSE self
    IN  SetAttr(s1, "parse_mode", parse_mode)

InputMediaDocument(media, thumb, caption, parse_mode, uuids) ==
    LET s0 == "type" :> PyStr("document")
        s1 == DocumentMedia(s0, media, uuids[1])
        s2 == DocumentThumb(s1, thumb, IF is_file(media) THEN uuids[2] ELSE uuids[1])
    IN  DocumentScalars(s2, caption, parse_mode)

(***************************************************************************)
(* The callers' inputs.                                                    *)
(***************************************************************************)
Plain == {None, PyStr(""), PyStr("AgACAgIAAxkBAAI")}

\* the open byte streams a caller holds
Streams == {File("video.mp4"), File("thumb.jpg")}

Ints == {None} \cup {PyInt(n) : n \in 0..MaxInt}

Captions == {None, PyStr(""), PyStr("cat")}

ParseModes == {DEFAULT_NONE, None, PyStr("HTML")}

Flags == {None, PyBool(FALSE), PyBool(TRUE)}

Performers == {None, PyStr(""), PyStr("performer")}

Titles == {None, PyStr(""), PyStr("title")}

\* objects received from the platform; a metadata attribute may be None
Animations ==
    {Animation(PyStr("animation_id"), w, h, d) :
        w \in {None, PyInt(7)}, h \in {None, PyInt(8)}, d \in {None, PyInt(9)}}

Videos ==
    {Video(PyStr("video_id"), w, h, d) :
        w \in {None, PyInt(7)}, h \in {None, PyInt(8)}, d \in {None, PyInt(9)}}

Audios ==
    {Audio(PyStr("audio_id"), d, p, t) :
        d \in {None, PyInt(9)}, p \in {None, PyStr("artist")}, t \in {None, PyStr("song")}}

PhotoSizes == {PhotoSize(PyStr("photo_id"), PyInt(7), PyInt(8))}

Documents == {Document(PyStr("document_id"))}

\* one object of every class, every attribute set
Full ==
    {Animation(PyStr("animation_id"), PyInt(7), PyInt(8), PyInt(9)),
     Video(PyStr("video_id"), PyInt(7), PyInt(8), PyInt(9)),
     Audio(PyStr("audio_id"), PyInt(9), PyStr("artist"), PyStr("song")),
     PhotoSize(PyStr("photo_id"), PyInt(7), PyInt(8)),
     Document(PyStr("document_id"))}

\* an object of the class that has also been given a read attribute
Readable(cls) == {("read" :> TRUE) @@ o : o \in {f \in Full : f.k = cls}}

\* what a caller may pass as media to the constructor that matches cls
Medias(cls, matching) ==
    Plain \cup Streams \cup matching \cup Readable(cls) \cup {f \in Full : f.k # cls}

\* what a caller may pass as thumb
Thumbs == {None, PyStr(""), PyStr("thumb.jpg"), File("thumb.jpg")} \cup PhotoSizes

\* a call: the constructor and its arguments; an argument the constructor
\* does not take is None
AnimationCalls ==
    [cls : {"animation"}, media : Medias("Animation", Animations), thumb : Thumbs,
     caption : Captions, parse_mode : ParseModes, width : Ints, height : Ints,
     duration : Ints, supports_streaming : {None}, performer : {None}, title : {None}]

PhotoCalls ==
    [cls : {"photo"}, media : Medias("PhotoSize", PhotoSizes), thumb : {None},
     caption : Captions, parse_mode : ParseModes, width : {None}, height : {None},
     duration : {None}, supports_streaming : {None}, performer : {None}, title : {None}]

VideoCalls ==
    [cls : {"video"}, media : Medias("Video", Videos), thumb : Thumbs,
     caption : Captions, parse_mode : ParseModes, width : Ints, height : Ints,
     duration : Ints, supports_streaming : Flags, performer : {None}, title : {None}]

AudioCalls ==
    [cls : {"audio"}, media : Medias("Audio", Audios), thumb : Thumbs,
     caption : Captions, parse_mode : ParseModes, width : {None}, height : {None},
     duration : Ints, supports_streaming : {None}, performer : Performers, title : Titles]

DocumentCalls ==
    [cls : {"document"}, media : Medias("Document", Documents), thumb : Thumbs,
     caption : Captions, parse_mode : ParseModes, width : {None}, height : {None},
     duration : {None}, supports_streaming : {None}, performer : {None}, title : {None}]

Calls == AnimationCalls \cup PhotoCalls \cup VideoCalls \cup AudioCalls \cup DocumentCalls

(***************************************************************************)
(* State.                                                                  *)
(***************************************************************************)
VARIABLES
    call,       \* the constructor call the caller makes, with its arguments
    record,     \* the object the last construction produced
    calls,      \* how many times the call has been made
    created     \* every InputFile this process has created

vars == <<call, record, calls, created>>

\* no object constructed yet
NoRecord == [a \in {} |-> None]

\* the values uuid4() can return
Uuids == 1..(2 * MaxCalls)

Used == {f.attach.uuid : f \in created}

\* the results of the next two uuid4() calls: new and different.  Which new
\* values they are does not matter to the constructors, so the two lowest
\* unused ones stand for all of them, in either order.
FreshUuids ==
    LET lowest == {u \in Uuids \ Used : u <= Cardinality(Used) + 2}
    IN  {u \in lowest \X lowest : u[1] # u[2]}

\* the InputFile objects an InputMedia object holds
InputFilesOf(r) == {r[a] : a \in {b \in DOMAIN r : r[b].k = "InputFile"}}

Init ==
    /\ call \in Calls
    /\ record = NoRecord
    /\ calls = 0
    /\ created = {}

Constructed(r) ==
    /\ record' = r
    /\ calls' = calls + 1
    /\ created' = created \cup InputFilesOf(r)
    /\ UNCHANGED call

NewInputMediaAnimation ==
    /\ call.cls = "animation"
    /\ calls < MaxCalls
    /\ \E uuids \in FreshUuids :
           Constructed(InputMediaAnimation(call.media, call.thumb, call.caption,
               call.parse_mode, call.width, call.height, call.duration, uuids))

NewInputMediaPhoto ==
    /\ call.cls = "photo"
    /\ calls < MaxCalls
    /\ \E uuids \in FreshUuids :
           Constructed(InputMediaPhoto(call.media, call.caption, call.parse_mode, uuids))

NewInputMediaVideo ==
    /\ call.cls = "video"
    /\ calls < MaxCalls
    /\ \E uuids \in FreshUuids :
           Constructed(InputMediaVideo(call.media, call.caption, call.width,
               call.height, call.duration, call.supports_streaming,
               call.parse_mode, call.thumb, uuids))

NewInputMediaAudio ==
    /\ call.cls = "audio"
    /\ calls < MaxCalls
    /\ \E uuids \in FreshUuids :
           Constructed(InputMediaAudio(call.media, call.thumb, call.caption,
               call.parse_mode, call.duration, call.performer, call.title, uuids))

NewInputMediaDocument ==
    /\ call.cls = "document"
    /\ calls < MaxCalls
    /\ \E uuids \in FreshUuids :
           Constructed(InputMediaDocument(call.media, call.thumb, call.caption,
               call.parse_mode, uuids))

Next ==
    \/ NewInputMediaAnimation
    \/ NewInputMediaPhoto
    \/ NewInputMediaVideo
    \/ NewInputMediaAudio
    \/ NewInputMediaDocument

Spec == Init /\ [][Next]_vars

(***************************************************************************)
(* Vocabulary of the properties.                                           *)
(***************************************************************************)
\* the value of self.type each constructor sets
Discriminator ==
    [animation |-> PyStr("animation"), photo |-> PyStr("photo"), video |-> PyStr("video"),
     audio |-> PyStr("audio"), document |-> PyStr("document")]

\* the telegram class each constructor tests media against
MatchingClass ==
    [animation |-> "Animation", photo |-> "PhotoSize", video |-> "Video",
     audio |-> "Audio", document |-> "Document"]

\* the optional arguments of each constructor
ArgsOf ==
    [animation |-> {"thumb", "caption", "parse_mode", "width", "height", "duration"},
     photo |-> {"caption", "parse_mode"},
     video |-> {"thumb", "caption", "parse_mode", "width", "height", "duration",
                "supports_streaming"},
     audio |-> {"thumb", "caption", "parse_mode", "duration", "performer", "title"},
     document |-> {"thumb", "caption", "parse_mode"}]

\* the attributes each constructor copies from a matching telegram object
MetaOf ==
    [animation |-> {"width", "height", "duration"}, photo |-> {},
     video |-> {"width", "height", "duration"},
     audio |-> {"duration", "performer", "title"}, document |-> {}]

\* the default of an optional argument
Default(a) == IF a = "parse_mode" THEN DEFAULT_NONE ELSE None

\* the object the call c constructs when uuid4() returns uuids
Construct(c, uuids) ==
    CASE c.cls = "animation" ->
           InputMediaAnimation(c.media, c.thumb, c.caption, c.parse_mode, c.width,
                               c.height, c.duration, uuids)
      [] c.cls = "photo" -> InputMediaPhoto(c.media, c.caption, c.parse_mode, uuids)
      [] c.cls = "video" ->
           InputMediaVideo(c.media, c.caption, c.width, c.height, c.duration,
                           c.supports_streaming, c.parse_mode, c.thumb, uuids)
      [] c.cls = "audio" ->
           InputMediaAudio(c.media, c.thumb, c.caption, c.parse_mode, c.duration,
                           c.performer, c.title, uuids)
      [] c.cls = "document" ->
           InputMediaDocument(c.media, c.thumb, c.caption, c.parse_mode, uuids)

Optional ==
    {"thumb", "caption", "parse_mode", "width", "height", "duration",
     "supports_streaming", "performer", "title"}

Done == calls > 0

Has(a) == a \in DOMAIN record

\* x is an open byte stream
ByteStream(x) == x.k = "file"

\* v is an attachment reference for stream, marked for multipart inclusion
IsAttachment(v, stream) == v.k = "InputFile" /\ v.obj = stream /\ v.attach # None

FromMatching == isinstance(call.media, MatchingClass[call.cls])

\* the uuids the construction of r consumed, in order
Drawn(r) ==
    LET m == IF r.media.k = "InputFile" THEN <<r.media.attach.uuid>> ELSE <<>>
        t == IF "thumb" \in DOMAIN r /\ r.thumb.k = "InputFile"
             THEN <<r.thumb.attach.uuid>> ELSE <<>>
    IN  m \o t \o <<0, 0>>

\* only media is passed, and it is a string
OnlyPlainMedia ==
    /\ call.media.k = "str"
    /\ \A a \in Optional : call[a] = Default(a)

(***************************************************************************)
(* C1                                                                      *)
(***************************************************************************)
\* C1, as stated: constructed from a plain string alone, the object has the
\* variant's type, that string as media and no optional attribute at all.
C1_AllOptionalAbsent ==
    (Done /\ OnlyPlainMedia) =>
        /\ record.type = Discriminator[call.cls]
        /\ record.media = call.media
        /\ \A a \in Optional : ~Has(a)

\* C1, amended: constructed from a plain string alone, the object has the
\* variant's type, that string as media, parse_mode holding DEFAULT_NONE, and
\* no other attribute.
C1_OnlyParseModePresent ==
    (Done /\ OnlyPlainMedia) =>
        /\ record.type = Discriminator[call.cls]
        /\ record.media = call.media
        /\ DOMAIN record = {"type", "media", "parse_mode"}
        /\ record.parse_mode = DEFAULT_NONE

C1_Witness == Done /\ OnlyPlainMedia /\ call.cls = "document" /\ Truthy(call.media)

C3_MediaResolution ==
    Done =>
        /\ Has("media")
        /\ IF FromMatching
           THEN record.media = call.media.file_id
           ELSE IF is_file(call.media)
           THEN IsAttachment(record.media, call.media)
           ELSE record.media = call.media

\* a matching object that also has a read attribute: the first case wins
C3_Witness ==
    /\ Done /\ FromMatching /\ is_file(call.media)
    /\ record.media = call.media.file_id

(***************************************************************************)
(* C4                                                                      *)
(***************************************************************************)
\* C4: a byte stream passed as media, or as thumb where the variant has one,
\* is stored as an InputFile that has attach set to a generated key, and the
\* InputFiles created for different streams have different keys.
C4_AttachmentKeys ==
    Done =>
        /\ ByteStream(call.media) => IsAttachment(record.media, call.media)
        /\ ("thumb" \in ArgsOf[call.cls] /\ ByteStream(call.thumb)) =>
               (Has("thumb") /\ IsAttachment(record.thumb, call.thumb))
        /\ \A f \in created : f.attach # None /\ f.attach.uuid \in Uuids
        /\ \A f, g \in created : f.obj # g.obj => f.attach # g.attach

C4_Witness ==
    /\ calls > 1
    /\ ByteStream(call.media) /\ ByteStream(call.thumb) /\ call.media # call.thumb
    /\ call.cls = "audio"
    /\ Cardinality(created) > 3

(***************************************************************************)
(* C5                                                                      *)
(***************************************************************************)
\* C5, as stated: the thumb attribute is absent, an InputFile, or the string
\* that was passed; a telegram object passed as thumb is never stored.
C5_ThumbNeverPlatformObject ==
    (Done /\ "thumb" \in ArgsOf[call.cls]) =>
        \/ ~Has("thumb")
        \/ record.thumb.k = "InputFile"
        \/ record.thumb.k = "str" /\ record.thumb = call.thumb

\* C5, amended: the thumb attribute is absent when the argument is falsy, an
\* InputFile when it is a byte stream, and otherwise the argument itself,
\* stored as it is (a telegram object too, its file_id not extracted);
\* whatever media was.
C5_ThumbStoredAsPassed ==
    (Done /\ "thumb" \in ArgsOf[call.cls]) =>
        IF ~Truthy(call.thumb)
        THEN ~Has("thumb")
        ELSE /\ Has("thumb")
             /\ IF ByteStream(call.thumb)
                THEN IsAttachment(record.thumb, call.thumb)
                ELSE record.thumb = call.thumb

C5_Witness ==
    /\ Done /\ call.cls = "animation" /\ FromMatching
    /\ call.thumb.k = "PhotoSize"
    /\ Has("thumb") /\ record.thumb = call.thumb

(***************************************************************************)
(* C6                                                                      *)
(***************************************************************************)
\* C6, as stated: when media is no matching telegram object, every optional
\* argument's attribute is there only if the argument is truthy, and a falsy
\* argument gives the object that leaving the argument out gives.
C6_FalsyIsOmitted ==
    (Done /\ ~FromMatching) =>
        \A a \in ArgsOf[call.cls] :
            /\ Has(a) => Truthy(call[a])
            /\ ~Truthy(call[a]) =>
                   record = Construct([call EXCEPT ![a] = Default(a)], Drawn(record))

\* C6, amended: that holds of every optional argument but parse_mode;
\* parse_mode is always there and holds the argument as passed.
C6_FalsyIsOmittedButParseMode ==
    (Done /\ ~FromMatching) =>
        /\ \A a \in ArgsOf[call.cls] \ {"parse_mode"} :
               /\ Has(a) => Truthy(call[a])
               /\ ~Truthy(call[a]) =>
                      record = Construct([call EXCEPT ![a] = Default(a)], Drawn(record))
        /\ Has("parse_mode")
        /\ record.parse_mode = call.parse_mode

C6_Witness ==
    /\ Done /\ ~FromMatching /\ call.cls = "video"
    /\ call.width = PyInt(0) /\ call.caption = PyStr("")
    /\ call.supports_streaming = PyBool(FALSE) /\ call.thumb = PyStr("")
    /\ Truthy(call.height)
    /\ DOMAIN record = {"type", "media", "parse_mode", "height"}

(***************************************************************************)
(* C7                                                                      *)
(***************************************************************************)
\* C7, as stated: no optional attribute is ever present holding None.
C7_NoNullAttribute ==
    Done => \A a \in Optional : Has(a) => record[a] # None

\* C7, amended: an optional attribute other than parse_mode is present
\* holding None only when it was copied from a matching telegram object whose
\* own attribute is None and no truthy value was passed for it; parse_mode
\* holds None when None is passed for it.
C7_NullOnlyFromObject ==
    Done =>
        /\ \A a \in Optional \ {"parse_mode"} :
               (Has(a) /\ record[a] = None) =>
                   /\ FromMatching
                   /\ a \in MetaOf[call.cls]
                   /\ call.media[a] = None
                   /\ ~Truthy(call[a])
        /\ record.parse_mode = None <=> call.parse_mode = None

C7_Witness ==
    /\ Done /\ call.cls = "audio" /\ FromMatching
    /\ call.media.performer = None /\ call.media.title # None
    /\ Has("performer") /\ record.performer = None
    /\ record.title = call.media.title

(***************************************************************************)
(* C8                                                                      *)
(***************************************************************************)
\* no argument of the call is a byte stream
NoStream == ~ByteStream(call.media) /\ ~ByteStream(call.thumb)

\* C8: constructing again from the same arguments, none of them a byte
\* stream, gives an object with the same attributes and values.
C8_Deterministic == [][(Done /\ NoStream) => record' = record]_vars

C8_Witness ==
    /\ calls > 1 /\ NoStream /\ call.cls = "video" /\ FromMatching
    /\ Truthy(call.thumb) /\ Truthy(call.caption)

(***************************************************************************)
(* C9                                                                      *)
(***************************************************************************)
\* C9: InputMediaPhoto from a PhotoSize and InputMediaDocument from a
\* Document take the file_id and nothing else: the object is the one built
\* from the file_id string.
C9_IdentifierOnly ==
    (Done /\ call.cls \in {"photo", "document"} /\ FromMatching) =>
        /\ record.media = call.media.file_id
        /\ \A a \in {"width", "height", "duration", "performer", "title"} : ~Has(a)
        /\ record = Construct([call EXCEPT !.media = call.media.file_id], Drawn(record))

C9_Witness ==
    /\ Done /\ call.cls = "photo" /\ FromMatching
    /\ call.media.width = PyInt(7)
    /\ DOMAIN record = {"type", "media", "parse_mode"}

(***************************************************************************)
(* C10                                                                     *)
(***************************************************************************)
\* media is neither a matching telegram object nor a byte stream
PassedThrough == ~FromMatching /\ ~is_file(call.media)

\* C10: with media neither a matching telegram object nor a byte stream
\* (any string, None, an object of another class) the constructor runs to
\* its end and media is the argument, unchanged.
C10_NoValidation ==
    PassedThrough =>
        /\ calls < MaxCalls => ENABLED Next
        /\ Done => (Has("media") /\ record.media = call.media)

C10_Witness ==
    /\ Done /\ call.cls = "photo" /\ call.media.k = "Video"
    /\ record.media = call.media

=============================================================================
